---- MODULE Spec2Model ----
(***************************************************************************)
(* Model of the Bynar disk-manager request loop (disk-manager/src/main.rs) *)
(* and of the Gluster backend (disk-manager/src/backend/gluster.rs).       *)
(*                                                                         *)
(* The listener is one sequential procedure, listen(); pc is its position  *)
(* and every action is one step of it between two calls that leave the     *)
(* process (socket, vault, backend, host device tables).                   *)
(*                                                                         *)
(* The responder is a zmq::REP socket (main.rs:67).  A REP socket is a     *)
(* two-state machine: after a request has been received the socket is in   *)
(* the reply-sending state and a further receive is refused (EFSM) until a *)
(* reply has been sent.  sending_reply is that state.                      *)
(*                                                                         *)
(* Serialisation of the fully initialised result records and allocation of *)
(* the outgoing zmq message (main.rs:216-219 and alike) are taken as total.*)
(***************************************************************************)
EXTENDS Integers, Sequences, FiniteSets, TLC

\* Number of requests the environment delivers in one run.
MaxRequests == 2

-----------------------------------------------------------------------------
(* Values *)

Kinds == {"Add", "AddPartition", "List", "Remove", "SafeToRemove"}

DiskPaths == {"/dev/sdz"}

Tokens == {"T1", "T2"}

\* Messages of the io::Error a backend operation can return.
ErrMsgs == {"device busy"}

BackendTypes == {"ceph", "gluster"}

\* api::service::Operation as the listener reads it: get_Op_type(),
\* get_token(), has_disk(), get_disk() (the empty string when unset).
\* The optional osd_id, osd_journal and osd_journal_partition fields are only
\* copied into add_disk's arguments (main.rs:97-111) and are left out.
Operations ==
    [Op_type : Kinds, token : Tokens, has_disk : {TRUE}, disk : DiskPaths]
    \cup [Op_type : Kinds, token : Tokens, has_disk : {FALSE}, disk : {""}]

NoOperation == [Op_type |-> "none", token |-> "", has_disk |-> FALSE, disk |-> ""]

\* A received byte message: either the encoding of an Operation or bytes that
\* do not decode.
Messages ==
    [decodable : {TRUE}, op : Operations]
    \cup {[decodable |-> FALSE, op |-> NoOperation]}

\* parse_from_bytes::<Operation>(&msg)
parse_from_bytes(m) ==
    IF m.decodable THEN [ok |-> TRUE, value |-> m.op]
                   ELSE [ok |-> FALSE, value |-> NoOperation]

-----------------------------------------------------------------------------
(* Token validation *)

\* A validator that accepts the token equal to the secret.
validate_vault_token_Equal(connectOk, fetchOk, res, client_token) ==
    IF ~connectOk THEN "err"
    ELSE IF ~fetchOk THEN "err"
    ELSE IF res = client_token THEN "ok"
    ELSE "err"

\* validate_vault_token: connect, fetch the secret under the key, compare.
validate_vault_token(connectOk, fetchOk, res, client_token) ==
    IF ~connectOk THEN "err"
    ELSE IF ~fetchOk THEN "err"
    ELSE IF res # client_token THEN "ok"
    ELSE "err"

-----------------------------------------------------------------------------
(* Device discovery *)

MediaTypes == {"Loopback", "LVM", "MdRaid", "NVME", "Ram", "Rotational",
               "SolidState", "Unknown", "Virtual"}

convert_media_to_disk_type(m) ==
    CASE m = "Loopback"   -> "LOOPBACK"
      [] m = "LVM"        -> "LVM"
      [] m = "MdRaid"     -> "MDRAID"
      [] m = "NVME"       -> "NVME"
      [] m = "Ram"        -> "RAM"
      [] m = "Rotational" -> "ROTATIONAL"
      [] m = "SolidState" -> "SOLID_STATE"
      [] m = "Unknown"    -> "UNKNOWN"
      [] m = "Virtual"    -> "VIRTUAL"

\* Uuid::hyphenated().to_string(): the groups of the GUID joined by "-".
Hyphenated(guid) == guid[1] \o "-" \o guid[2]

\* A conversion that sets the two block addresses the wrong way round.
ToProtoPartition_Swapped(part) ==
    [uuid      |-> Hyphenated(part.part_guid),
     first_lba |-> part.last_LBA,
     last_lba  |-> part.first_LBA,
     flags     |-> part.flags,
     name      |-> part.name]

\* One GPT entry -> protobuf Partition (the closure of get_partition_info).
ToProtoPartition(part) ==
    [uuid      |-> Hyphenated(part.part_guid),
     first_lba |-> part.first_LBA,
     last_lba  |-> part.last_LBA,
     flags     |-> part.flags,
     name      |-> part.name]

\* PartitionInfo::new()
EmptyPartitionInfo == <<>>

\* get_partition_info(dev_path): read_header, read_partitions, convert.
get_partition_info(table) ==
    IF ~table.header_ok THEN [ok |-> FALSE, value |-> EmptyPartitionInfo]
    ELSE IF ~table.entries_ok THEN [ok |-> FALSE, value |-> EmptyPartitionInfo]
    ELSE [ok    |-> TRUE,
          value |-> [i \in 1..Len(table.partitions) |->
                        ToProtoPartition(table.partitions[i])]]

\* Result::unwrap_or
unwrap_or(r, default) == IF r.ok THEN r.value ELSE default

\* The body of the for loop of get_disks: one Disk per device.
ToProtoDisk(device) ==
    [dev_path          |-> "/dev/" \o device.name,
     field_type        |-> convert_media_to_disk_type(device.media_type),
     partitions        |-> unwrap_or(get_partition_info(device.table),
                                     EmptyPartitionInfo),
     has_serial_number |-> device.has_serial,
     serial_number     |-> IF device.has_serial THEN device.serial ELSE ""]

\* A get_disks that returns the error of get_partition_info instead of
\* falling back to an empty PartitionInfo.
get_disks_FailOnUnreadable(host) ==
    IF ~host.list_ok THEN [ok |-> FALSE, value |-> <<>>]
    ELSE IF ~host.info_ok THEN [ok |-> FALSE, value |-> <<>>]
    ELSE IF \E i \in 1..Len(host.devices) :
                ~get_partition_info(host.devices[i].table).ok
    THEN [ok |-> FALSE, value |-> <<>>]
    ELSE [ok    |-> TRUE,
          value |-> [i \in 1..Len(host.devices) |-> ToProtoDisk(host.devices[i])]]

\* get_disks(): get_block_devices, get_all_device_info, then the loop.
get_disks(host) ==
    IF ~host.list_ok THEN [ok |-> FALSE, value |-> <<>>]
    ELSE IF ~host.info_ok THEN [ok |-> FALSE, value |-> <<>>]
    ELSE [ok    |-> TRUE,
          value |-> [i \in 1..Len(host.devices) |-> ToProtoDisk(host.devices[i])]]

\* What the host can hold when it is enumerated.
PartA == [part_guid |-> <<"0a", "01">>, first_LBA |-> 34, last_LBA |-> 2047,
          flags |-> 0, name |-> "boot"]
PartB == [part_guid |-> <<"0b", "02">>, first_LBA |-> 2048, last_LBA |-> 2048,
          flags |-> 4, name |-> "data"]

DevSda == [name |-> "sda", media_type |-> "Rotational", has_serial |-> TRUE,
           serial |-> "S1",
           table |-> [header_ok |-> TRUE, entries_ok |-> TRUE,
                      partitions |-> <<PartA, PartB>>]]
DevSdb == [name |-> "sdb", media_type |-> "SolidState", has_serial |-> FALSE,
           serial |-> "",
           table |-> [header_ok |-> FALSE, entries_ok |-> FALSE,
                      partitions |-> <<>>]]
DevNvme == [name |-> "nvme0n1", media_type |-> "NVME", has_serial |-> TRUE,
            serial |-> "S2",
            table |-> [header_ok |-> TRUE, entries_ok |-> FALSE,
                       partitions |-> <<PartB>>]]
DevLoop == [name |-> "loop0", media_type |-> "Loopback", has_serial |-> FALSE,
            serial |-> "",
            table |-> [header_ok |-> TRUE, entries_ok |-> TRUE,
                       partitions |-> <<>>]]

DeviceLists == {<<>>, <<DevSdb, DevSda>>, <<DevLoop, DevNvme, DevSdb>>}

Hosts ==
    [list_ok : {TRUE}, info_ok : {TRUE}, devices : DeviceLists]
    \cup {[list_ok |-> FALSE, info_ok |-> TRUE, devices |-> <<DevSda>>],
          [list_ok |-> TRUE, info_ok |-> FALSE, devices |-> <<DevSda>>]}

-----------------------------------------------------------------------------
(* Backends *)

IoOk == [ok |-> TRUE, value |-> TRUE, err |-> ""]
IoOkBool(b) == [ok |-> TRUE, value |-> b, err |-> ""]
IoErr(m) == [ok |-> FALSE, value |-> FALSE, err |-> m]

\* impl Backend for GlusterBackend
GlusterBackend_add_disk(device, simulate) == IoOk

GlusterBackend_remove_disk(device, simulate) == IoOk

GlusterBackend_safe_to_remove_Unsafe(device, simulate) == IoOkBool(~simulate)
GlusterBackend_safe_to_remove(device, simulate) == IoOkBool(TRUE)

\* The results the Ceph backend can give; its code is not among the sources.
CephBackend_unit_results(device, simulate) ==
    {IoOk} \cup {IoErr(m) : m \in ErrMsgs}

CephBackend_safe_to_remove_results(device, simulate) ==
    IF simulate THEN {IoOkBool(TRUE)}
    ELSE {IoOkBool(TRUE), IoOkBool(FALSE)} \cup {IoErr(m) : m \in ErrMsgs}

\* The trait call backend.<op>(device, .., simulate) on the loaded backend.
BackendResults(bt, op, device, simulate) ==
    IF bt = "gluster"
    THEN CASE op = "add_disk"       -> {GlusterBackend_add_disk(device, simulate)}
           [] op = "remove_disk"    -> {GlusterBackend_remove_disk(device, simulate)}
           [] op = "safe_to_remove" -> {GlusterBackend_safe_to_remove(device, simulate)}
    ELSE CASE op = "add_disk"       -> CephBackend_unit_results(device, simulate)
           [] op = "remove_disk"    -> CephBackend_unit_results(device, simulate)
           [] op = "safe_to_remove" -> CephBackend_safe_to_remove_results(device, simulate)

\* A Gluster backend that acts on the cluster whatever simulate says.
GlusterBackend_topology_Acting(op, device, simulate, r, topo) ==
    CASE op = "add_disk"       -> topo \cup {device}
      [] op = "remove_disk"    -> topo \ {device}
      [] op = "safe_to_remove" -> topo

\* What the three GlusterBackend methods do to the cluster: their bodies
\* take no action.
GlusterBackend_topology(op, device, simulate, r, topo) == topo

\* What the Ceph backend does to the cluster: nothing when simulate is set
\* or the operation fails.
CephBackend_topology(op, device, simulate, r, topo) ==
    IF simulate \/ ~r.ok THEN topo
    ELSE CASE op = "add_disk"       -> topo \cup {device}
           [] op = "remove_disk"    -> topo \ {device}
           [] op = "safe_to_remove" -> topo

\* The cluster after backend.<op>(device, .., simulate) returned r.
BackendTopology(bt, op, device, simulate, r, topo) ==
    IF bt = "gluster" THEN GlusterBackend_topology(op, device, simulate, r, topo)
    ELSE CephBackend_topology(op, device, simulate, r, topo)

\* backend::load_backend(backend, Some(config_dir)): the instance or an error.
load_backend_results(bt) == {"ok", "err"}

-----------------------------------------------------------------------------
(* Result records *)

NoResponse ==
    [shape |-> "none", result |-> "OK", has_error_msg |-> FALSE, error_msg |-> "",
     has_value |-> FALSE, value |-> FALSE, disk |-> <<>>]

\* A handler that forgets the ERR arm.
MakeOpResult_AlwaysOk(r) ==
    [NoResponse EXCEPT !.shape = "OpResult", !.result = "OK"]

\* OpResult::new() followed by the match on the backend result
\* (add_disk, remove_disk).
MakeOpResult(r) ==
    IF r.ok
    THEN [NoResponse EXCEPT !.shape = "OpResult", !.result = "OK"]
    ELSE [NoResponse EXCEPT !.shape = "OpResult", !.result = "ERR",
                            !.has_error_msg = TRUE, !.error_msg = r.err]

\* A handler that sets the value in the Err arm as well.
MakeOpBoolResult_ValueOnErr(r) ==
    [NoResponse EXCEPT !.shape = "OpBoolResult",
                       !.result = IF r.ok THEN "OK" ELSE "ERR",
                       !.has_value = TRUE, !.value = r.value,
                       !.has_error_msg = ~r.ok, !.error_msg = r.err]

\* OpBoolResult::new() followed by the match on the backend result
\* (safe_to_remove_disk).
MakeOpBoolResult(r) ==
    IF r.ok
    THEN [NoResponse EXCEPT !.shape = "OpBoolResult", !.result = "OK",
                            !.has_value = TRUE, !.value = r.value]
    ELSE [NoResponse EXCEPT !.shape = "OpBoolResult", !.result = "ERR",
                            !.has_error_msg = TRUE, !.error_msg = r.err]

\* Disks::new(); disks.set_disk(..) (list_disks).
MakeDisks(disk_list) ==
    [NoResponse EXCEPT !.shape = "Disks", !.disk = disk_list]

-----------------------------------------------------------------------------
(* The listener *)

VARIABLES
    pc,             \* position of listen()
    sending_reply,  \* REP socket: a request was received and not yet answered
    backend_type,   \* the BackendType main() passes to listen()
    reqs,           \* one record per received message, in order of receipt
    operation,      \* the decoded Operation being handled
    result,         \* the result record the handler has built
    active,         \* backend operations that were called and have not returned
    faults,         \* socket failures seen so far
    wire,           \* the receives and sends made on the socket, in order
    topology,       \* the devices the backend's cluster holds
    last_call       \* the last direct call of a Backend method and its result

vars == <<pc, sending_reply, backend_type, reqs, operation, result, active, faults,
          wire, topology, last_call>>

NoCall == [op |-> "none", device |-> "", simulate |-> FALSE, result |-> IoOk,
           before |-> {}]

NoHost == [list_ok |-> FALSE, info_ok |-> FALSE, devices |-> <<>>]

NoVault == [connectOk |-> FALSE, fetchOk |-> FALSE, res |-> "", client_token |-> ""]

\* What is recorded about one received message.
NewReq(m) ==
    [msg        |-> m,
     auth       |-> "none",   \* result of validate_vault_token
     vault      |-> NoVault,  \* what the validation saw
     loaded     |-> "none",   \* result of load_backend
     calls      |-> <<>>,     \* backend operations invoked
     returns    |-> <<>>,     \* their results
     enumerated |-> "none",   \* result of get_disks
     host       |-> NoHost,   \* the host as get_disks found it
     sends      |-> <<>>,     \* messages handed to send_msg, with the outcome
     dropped    |-> "none",   \* why the handling ended without a send
     finished   |-> FALSE]    \* control is back at the top of the loop

cur == Len(reqs)

\* Requests received whose handling has not finished.
inflight == {i \in 1..Len(reqs) : ~reqs[i].finished}

\* A dispatcher whose Remove arm lacks the has_disk() check.
RequiresDisk_NoRemove(kind) == kind \in {"Add", "SafeToRemove"}

\* The kinds whose arm checks has_disk() before anything else.
RequiresDisk(kind) == kind \in {"Add", "Remove", "SafeToRemove"}

\* A dispatcher whose AddPartition arm lists the disks.
ArmOf_PartitionLists(kind) ==
    CASE kind \in {"Add", "Remove", "SafeToRemove"} -> "load"
      [] kind \in {"List", "AddPartition"}          -> "enumerate"

\* Where the arm of a kind takes listen(), its has_disk() check passed: into
\* the handler that loads the backend, into list_disks, or, for the empty
\* AddPartition arm, straight to the sleep.
ArmOf(kind) ==
    CASE kind \in {"Add", "Remove", "SafeToRemove"} -> "load"
      [] kind = "List"                              -> "enumerate"
      [] kind = "AddPartition"                      -> "sleep"

\* The backend operation the handler of a kind calls.
BackendOp(kind) ==
    CASE kind = "Add"          -> "add_disk"
      [] kind = "Remove"       -> "remove_disk"
      [] kind = "SafeToRemove" -> "safe_to_remove"

\* Handlers that call the backend in simulate mode.
Simulate_True == TRUE

\* The simulate argument of the three backend calls.
Simulate == FALSE

\* A listener that logs the validation error and goes on.
AfterValidate_Ignore(r) == "dispatch"

\* Where listen() goes after validate_vault_token returned r.
AfterValidate(r) == IF r = "ok" THEN "dispatch" ELSE "recv"

\* Where listen() goes after parse_from_bytes returned r.
AfterParse(r) == IF r.ok THEN "validate" ELSE "recv"

\* A listener that retries the receive after an error.
AfterRecvError_Retry == "recv"

\* Where listen() goes when recv_bytes returns an error.
AfterRecvError == "exited"

\* A handler that answers although an earlier step failed.
AfterHandlerError_Send == "send"

\* Where a handler's error return leaves listen(): the error is logged and
\* the arm ends, so the sleep follows.
AfterHandlerError == "sleep"

\* A handler that goes on to the backend call whatever load_backend returned.
AfterLoad_Ignore(r) == "call"

\* Where the handler goes after load_backend(..).map_err(..)?: on to the
\* backend call, or out of the handler with the error.
AfterLoad(r) == IF r = "ok" THEN "call" ELSE AfterHandlerError

\* A listener that takes the next request while a backend call is running.
RecvReady_DuringCall == pc \in {"recv", "in_backend"}

\* recv_bytes on the REP socket can deliver a request.
RecvReady == pc = "recv" /\ ~sending_reply

\* A safe_to_remove_disk that answers with an OpResult.
HandlerResult_OpResult(kind, r) == MakeOpResult(r)

\* The result record the handler of a kind builds from the backend result.
HandlerResult(kind, r) ==
    IF kind = "SafeToRemove" THEN MakeOpBoolResult(r) ELSE MakeOpResult(r)

Init ==
    /\ pc = "socket"
    /\ sending_reply = FALSE
    /\ backend_type \in BackendTypes
    /\ reqs = <<>>
    /\ operation = NoOperation
    /\ result = NoResponse
    /\ active = {}
    /\ faults = {}
    /\ wire = <<>>
    /\ topology = {}
    /\ last_call = NoCall

\* context.socket(zmq::REP)?
SocketOk ==
    /\ pc = "socket"
    /\ pc' = "bind"
    /\ UNCHANGED <<sending_reply, backend_type, reqs, operation, result, active, faults, wire, topology, last_call>>

SocketFail ==
    /\ pc = "socket"
    /\ pc' = "exited"
    /\ faults' = faults \cup {"socket"}
    /\ UNCHANGED <<sending_reply, backend_type, reqs, operation, result, active, wire, topology, last_call>>

\* assert!(responder.bind("tcp://*:5555").is_ok())
BindOk ==
    /\ pc = "bind"
    /\ pc' = "recv"
    /\ UNCHANGED <<sending_reply, backend_type, reqs, operation, result, active, faults, wire, topology, last_call>>

BindFail ==
    /\ pc = "bind"
    /\ pc' = "exited"
    /\ faults' = faults \cup {"bind"}
    /\ UNCHANGED <<sending_reply, backend_type, reqs, operation, result, active, wire, topology, last_call>>

\* let msg = responder.recv_bytes(0)?  -- a request arrives
RecvOk ==
    /\ RecvReady
    /\ Len(reqs) < MaxRequests
    /\ \E m \in Messages :
         reqs' = Append(reqs, NewReq(m))
    /\ sending_reply' = TRUE
    /\ pc' = "parse"
    /\ operation' = NoOperation
    /\ result' = NoResponse
    /\ wire' = Append(wire, "recv")
    /\ UNCHANGED <<backend_type, active, faults, topology, last_call>>

\* recv_bytes while the previous request is still unanswered: EFSM
RecvEFSM ==
    /\ pc = "recv"
    /\ sending_reply
    /\ pc' = AfterRecvError
    /\ faults' = faults \cup {"recv_efsm"}
    /\ UNCHANGED <<sending_reply, backend_type, reqs, operation, result, active, wire, topology, last_call>>

\* recv_bytes fails for a reason of the transport
RecvFail ==
    /\ pc = "recv"
    /\ pc' = AfterRecvError
    /\ faults' = faults \cup {"recv"}
    /\ UNCHANGED <<sending_reply, backend_type, reqs, operation, result, active, wire, topology, last_call>>

\* match parse_from_bytes::<Operation>(&msg)
Parse ==
    /\ pc = "parse"
    /\ LET r == parse_from_bytes(reqs[cur].msg) IN
         /\ operation' = r.value
         /\ pc' = AfterParse(r)
         /\ reqs' = IF AfterParse(r) = "recv"
                    THEN [reqs EXCEPT ![cur].dropped = "decode", ![cur].finished = TRUE]
                    ELSE reqs
    /\ UNCHANGED <<sending_reply, backend_type, result, active, faults, wire, topology, last_call>>

\* if let Err(e) = validate_vault_token(.., operation.get_token(), ..)
Validate ==
    /\ pc = "validate"
    /\ \E connectOk \in BOOLEAN, fetchOk \in BOOLEAN, res \in Tokens :
         LET r == validate_vault_token(connectOk, fetchOk, res, operation.token)
             seen == [connectOk |-> connectOk, fetchOk |-> fetchOk, res |-> res,
                      client_token |-> operation.token]
         IN /\ pc' = AfterValidate(r)
            /\ reqs' = IF AfterValidate(r) = "recv"
                       THEN [reqs EXCEPT ![cur].auth = r, ![cur].vault = seen,
                                         ![cur].dropped = "auth",
                                         ![cur].finished = TRUE]
                       ELSE [reqs EXCEPT ![cur].auth = r, ![cur].vault = seen]
    /\ UNCHANGED <<sending_reply, backend_type, operation, result, active, faults, wire, topology, last_call>>

\* match operation.get_Op_type(), up to the call of the handler
Dispatch ==
    /\ pc = "dispatch"
    /\ LET kind == operation.Op_type IN
         IF RequiresDisk(kind) /\ ~operation.has_disk
         THEN /\ pc' = "recv"
              /\ reqs' = [reqs EXCEPT ![cur].dropped = "field", ![cur].finished = TRUE]
         ELSE /\ pc' = ArmOf(kind)
              /\ reqs' = IF ArmOf(kind) = "sleep"
                         THEN [reqs EXCEPT ![cur].dropped = "noop"]
                         ELSE reqs
    /\ UNCHANGED <<sending_reply, backend_type, operation, result, active, faults, wire, topology, last_call>>

\* backend::load_backend(backend, Some(config_dir)).map_err(..)?
LoadBackend ==
    /\ pc = "load"
    /\ \E r \in load_backend_results(backend_type) :
         /\ pc' = AfterLoad(r)
         /\ reqs' = IF r = "ok"
                    THEN [reqs EXCEPT ![cur].loaded = "ok"]
                    ELSE [reqs EXCEPT ![cur].loaded = "err", ![cur].dropped = "load"]
    /\ UNCHANGED <<sending_reply, backend_type, operation, result, active, faults, wire, topology, last_call>>

\* backend.add_disk / remove_disk / safe_to_remove is entered
BackendCall ==
    /\ pc = "call"
    /\ LET c == [op |-> BackendOp(operation.Op_type), device |-> operation.disk,
                 simulate |-> Simulate]
       IN /\ reqs' = [reqs EXCEPT ![cur].calls = Append(@, c)]
          /\ active' = active \cup {[req |-> cur, op |-> c.op, device |-> c.device]}
    /\ pc' = "in_backend"
    /\ UNCHANGED <<sending_reply, backend_type, operation, result, faults, wire, topology, last_call>>

\* the backend operation returns and the handler builds its result record
BackendReturn ==
    /\ pc = "in_backend"
    /\ LET c == reqs[cur].calls[Len(reqs[cur].calls)] IN
         \E r \in BackendResults(backend_type, c.op, c.device, c.simulate) :
            /\ reqs' = [reqs EXCEPT ![cur].returns = Append(@, r)]
            /\ result' = HandlerResult(operation.Op_type, r)
            /\ active' = active \ {[req |-> cur, op |-> c.op, device |-> c.device]}
            /\ topology' = BackendTopology(backend_type, c.op, c.device, c.simulate,
                                           r, topology)
    /\ pc' = "send"
    /\ UNCHANGED <<sending_reply, backend_type, operation, faults, wire, last_call>>

\* list_disks: get_disks().map_err(..)?, then the Disks record
ListDisks ==
    /\ pc = "enumerate"
    /\ \E host \in Hosts :
         LET r == get_disks(host) IN
           IF r.ok
           THEN /\ reqs' = [reqs EXCEPT ![cur].enumerated = "ok", ![cur].host = host]
                /\ result' = MakeDisks(r.value)
                /\ pc' = "send"
           ELSE /\ reqs' = [reqs EXCEPT ![cur].enumerated = "err",
                                        ![cur].host = host,
                                        ![cur].dropped = "discovery"]
                /\ result' = result
                /\ pc' = AfterHandlerError
    /\ UNCHANGED <<sending_reply, backend_type, operation, active, faults, wire, topology, last_call>>

\* s.send_msg(msg, 0)? succeeds: the handler returns Ok(())
SendOk ==
    /\ pc = "send"
    /\ sending_reply
    /\ reqs' = [reqs EXCEPT ![cur].sends = Append(@, [msg |-> result, ok |-> TRUE])]
    /\ sending_reply' = FALSE
    /\ pc' = "sleep"
    /\ wire' = Append(wire, "send")
    /\ UNCHANGED <<backend_type, operation, result, active, faults, topology, last_call>>

\* s.send_msg(msg, 0)? fails: the handler returns the error, listen() logs it
SendFail ==
    /\ pc = "send"
    /\ reqs' = [reqs EXCEPT ![cur].sends = Append(@, [msg |-> result, ok |-> FALSE])]
    /\ faults' = faults \cup {"send"}
    /\ pc' = AfterHandlerError
    /\ wire' = Append(wire, "send")
    /\ UNCHANGED <<sending_reply, backend_type, operation, result, active, topology, last_call>>

\* thread::sleep(Duration::from_millis(10)) and back to the top of the loop
Sleep ==
    /\ pc = "sleep"
    /\ reqs' = [reqs EXCEPT ![cur].finished = TRUE]
    /\ pc' = "recv"
    /\ UNCHANGED <<sending_reply, backend_type, operation, result, active, faults, wire, topology, last_call>>

Next ==
    \/ SocketOk \/ SocketFail \/ BindOk \/ BindFail
    \/ RecvOk \/ RecvEFSM \/ RecvFail
    \/ Parse \/ Validate \/ Dispatch
    \/ LoadBackend \/ BackendCall \/ BackendReturn
    \/ ListDisks
    \/ SendOk \/ SendFail
    \/ Sleep

Spec == Init /\ [][Next]_vars

-----------------------------------------------------------------------------
(* The GlusterBackend methods called directly, with either value of      *)
(* simulate, on any cluster                                               *)

\* The device paths the methods are called with.
BackendPaths == DiskPaths \cup {"/dev/sda", "/dev/sdb"}

BackendInit ==
    /\ pc = "backend"
    /\ sending_reply = FALSE
    /\ backend_type = "gluster"
    /\ reqs = <<>>
    /\ operation = NoOperation
    /\ result = NoResponse
    /\ active = {}
    /\ faults = {}
    /\ wire = <<>>
    /\ topology \in SUBSET BackendPaths
    /\ last_call = NoCall

\* backend.<op>(device, .., simulate) on the cluster as it is
CallBackend(op) ==
    \E device \in BackendPaths, simulate \in BOOLEAN :
       \E r \in BackendResults(backend_type, op, device, simulate) :
          /\ last_call' = [op |-> op, device |-> device, simulate |-> simulate,
                           result |-> r, before |-> topology]
          /\ topology' = BackendTopology(backend_type, op, device, simulate,
                                         r, topology)

CallAddDisk ==
    /\ pc = "backend"
    /\ CallBackend("add_disk")
    /\ UNCHANGED <<pc, sending_reply, backend_type, reqs, operation, result, active,
                   faults, wire>>

CallRemoveDisk ==
    /\ pc = "backend"
    /\ CallBackend("remove_disk")
    /\ UNCHANGED <<pc, sending_reply, backend_type, reqs, operation, result, active,
                   faults, wire>>

CallSafeToRemove ==
    /\ pc = "backend"
    /\ CallBackend("safe_to_remove")
    /\ UNCHANGED <<pc, sending_reply, backend_type, reqs, operation, result, active,
                   faults, wire>>

BackendNext == CallAddDisk \/ CallRemoveDisk \/ CallSafeToRemove

BackendSpec == BackendInit /\ [][BackendNext]_vars

-----------------------------------------------------------------------------
(* Properties *)

Ids == 1..Len(reqs)

KindOf(i) == reqs[i].msg.op.Op_type

\* C1: a backend operation (add_disk, remove_disk, safe_to_remove) or a
\* device enumeration is invoked for a request only after the token validator
\* has returned success for that request's own token; a request whose
\* validation failed causes no backend call and no enumeration.
C1_BackendOnlyAfterValidation ==
    /\ \A i \in Ids :
         (reqs[i].calls # <<>> \/ reqs[i].enumerated # "none" \/ reqs[i].loaded # "none")
            => /\ reqs[i].auth = "ok"
               /\ reqs[i].vault.client_token = reqs[i].msg.op.token
    /\ \A a \in active : reqs[a.req].auth = "ok"
    /\ pc \in {"dispatch", "load", "call", "in_backend", "enumerate"}
          => reqs[cur].auth = "ok"

C1_Witness ==
    /\ Len(reqs) = 2
    /\ reqs[1].calls # <<>> /\ reqs[1].auth = "ok"
    /\ reqs[2].auth = "err" /\ reqs[2].finished
    /\ reqs[2].calls = <<>> /\ reqs[2].enumerated = "none"

\* C2: when token validation fails for a request (the secrets service not
\* being reachable included), no response is sent for that request, whatever
\* its kind and fields.
C2_NoResponseOnAuthFailure ==
    \A i \in Ids :
        reqs[i].auth = "err"
           => /\ reqs[i].sends = <<>>
              /\ reqs[i].finished
              /\ (i = cur => pc \in {"recv", "exited"})

C2_Witness ==
    \E i \in Ids :
        /\ reqs[i].auth = "err" /\ ~reqs[i].vault.connectOk
        /\ KindOf(i) = "Add" /\ reqs[i].msg.op.disk = "/dev/sdz"
        /\ reqs[i].finished /\ pc = "exited"

\* C3: after a malformed message the listener sends no response for it, the
\* process does not terminate on its account, and the socket takes the next
\* request: the receive that follows is not refused.
C3_MalformedThenServed ==
    \A i \in Ids :
        reqs[i].dropped = "decode"
           => /\ reqs[i].sends = <<>>
              /\ (i = cur /\ pc = "recv" => ENABLED RecvOk \/ Len(reqs) = MaxRequests)
              /\ (i = cur /\ pc = "exited" => "recv_efsm" \notin faults)

\* C4: validate_vault_token returns success if and only if the connection
\* succeeds, the fetch succeeds and the fetched secret is not equal to the
\* caller's token.
C4_ValidateIffSecretDiffers ==
    \A i \in Ids :
        reqs[i].auth # "none"
           => LET v == reqs[i].vault IN
                /\ v.client_token = reqs[i].msg.op.token
                /\ reqs[i].auth = "ok"
                      <=> (v.connectOk /\ v.fetchOk /\ v.res # v.client_token)

C4_Witness ==
    /\ Len(reqs) = 2
    /\ reqs[1].auth = "ok" /\ reqs[1].vault.res # reqs[1].msg.op.token
    /\ reqs[2].auth = "err" /\ reqs[2].vault.connectOk /\ reqs[2].vault.fetchOk
    /\ reqs[2].vault.res = reqs[2].msg.op.token

\* C5: a request with a valid token whose kind is Add, Remove, SafeToRemove
\* or AddPartition and that carries no disk_path gets no response and causes
\* no backend call.
C5_MissingDiskDropped ==
    \A i \in Ids :
        (/\ reqs[i].auth = "ok"
         /\ KindOf(i) \in {"Add", "Remove", "SafeToRemove", "AddPartition"}
         /\ ~reqs[i].msg.op.has_disk)
           => /\ reqs[i].sends = <<>>
              /\ reqs[i].calls = <<>>
              /\ reqs[i].loaded = "none"
              /\ (i = cur => pc \in {"dispatch", "sleep", "recv", "exited"})

C5_Witness ==
    \E i \in Ids :
        /\ reqs[i].auth = "ok" /\ KindOf(i) = "Remove"
        /\ ~reqs[i].msg.op.has_disk
        /\ reqs[i].dropped = "field" /\ reqs[i].finished

\* C6: for Add, Remove and SafeToRemove with a valid token and a disk_path,
\* once the backend operation has returned the listener hands exactly one
\* response to the socket: status ERR with the backend error's message when
\* the operation failed, status OK when it succeeded; and a backend failure
\* does not end the process: after the answer the next request can be
\* received.
C6_BackendResultAnswered ==
    \A i \in Ids :
        (reqs[i].returns # <<>> /\ (i < cur \/ pc # "send"))
           => /\ Len(reqs[i].returns) = 1
              /\ Len(reqs[i].sends) = 1
              /\ LET r == reqs[i].returns[1]
                     m == reqs[i].sends[1].msg
                 IN /\ r.ok => m.result = "OK"
                    /\ ~r.ok => (m.result = "ERR" /\ m.has_error_msg
                                  /\ m.error_msg = r.err)
              /\ (i = cur /\ reqs[i].sends[1].ok)
                    => /\ pc \in {"sleep", "recv", "exited"}
                       /\ pc = "exited" => faults = {"recv"}
                       /\ pc = "recv" => (ENABLED RecvOk \/ Len(reqs) = MaxRequests)

C6_Witness ==
    /\ Len(reqs) = 2
    /\ KindOf(1) = "Remove" /\ reqs[1].msg.op.disk = "/dev/sdz"
    /\ reqs[1].returns = <<IoErr("device busy")>>
    /\ Len(reqs[1].sends) = 1
    /\ reqs[1].sends[1].msg.result = "ERR"
    /\ reqs[1].sends[1].msg.error_msg = "device busy"
    /\ reqs[2].auth = "ok"

\* C7 as stated: a List request whose device enumeration fails is answered
\* with an ERR result that carries a message.
C7_EnumerationFailureAnswered ==
    \A i \in Ids :
        (reqs[i].enumerated = "err" /\ reqs[i].finished)
           => \E k \in 1..Len(reqs[i].sends) :
                 /\ reqs[i].sends[k].msg.result = "ERR"
                 /\ reqs[i].sends[k].msg.has_error_msg

\* C7 (amended): a List request with a valid token whose device enumeration
\* fails gets no response of any shape; the error is only logged and no
\* backend is called.
C7_EnumerationFailureSilent ==
    \A i \in Ids :
        reqs[i].enumerated = "err"
           => /\ reqs[i].sends = <<>>
              /\ reqs[i].calls = <<>>
              /\ KindOf(i) = "List" /\ reqs[i].auth = "ok"
              /\ (i = cur => pc \in {"sleep", "recv", "exited"})

C7_Witness ==
    \E i \in Ids :
        /\ KindOf(i) = "List" /\ reqs[i].auth = "ok"
        /\ reqs[i].enumerated = "err" /\ reqs[i].finished

\* C8: a failure of the socket (creation, bind, receive, or the send of a
\* response) is fatal: a failed creation, bind or receive ends listen() at
\* once; after a failed send no further request is received, nothing more
\* is called or sent, and the receive that follows ends listen(); once
\* listen() has ended nothing more happens.
C8_TransportFailureFatal ==
    /\ faults \cap {"socket", "bind", "recv", "recv_efsm"} # {} => pc = "exited"
    /\ "send" \in faults
          => /\ pc \in {"sleep", "recv", "exited"}
             /\ \E k \in 1..Len(reqs[cur].sends) : ~reqs[cur].sends[k].ok
             /\ pc = "recv" => (~ENABLED RecvOk /\ ENABLED RecvEFSM)
    /\ \A i \in Ids :
          (\E k \in 1..Len(reqs[i].sends) : ~reqs[i].sends[k].ok)
             => i = cur /\ Len(reqs[i].sends) = 1
    /\ pc = "exited" => (~ENABLED Next /\ active = {} /\ faults # {})

C8_Witness ==
    /\ pc = "exited"
    /\ faults = {"send", "recv_efsm"}
    /\ Len(reqs) = 2 /\ Len(reqs[2].sends) = 1 /\ ~reqs[2].sends[1].ok

\* C9: at most one request is in flight: a request is received only when
\* every earlier one has finished all its steps, so no two backend calls
\* overlap.
C9_OneInFlight ==
    /\ Cardinality(inflight) <= 1
    /\ \A i \in Ids : i < cur => reqs[i].finished
    /\ Cardinality(active) <= 1
    /\ \A a \in active : a.req = cur /\ pc = "in_backend"
    /\ pc = "recv" => inflight = {}

C9_Witness ==
    /\ Len(reqs) = 2
    /\ reqs[1].calls # <<>> /\ reqs[1].finished
    /\ \E a \in active : a.req = 2 /\ a.device = reqs[1].calls[1].device

\* C10: every request gets at most one response, and its shape follows the
\* kind: Add and Remove an OpResult, SafeToRemove an OpBoolResult, List a
\* disk list; AddPartition and undecodable messages get none.
C10_ShapeByKind ==
    \A i \in Ids :
        /\ Len(reqs[i].sends) <= 1
        /\ \A k \in 1..Len(reqs[i].sends) :
              LET shape == reqs[i].sends[k].msg.shape IN
                /\ reqs[i].msg.decodable
                /\ KindOf(i) \in {"Add", "Remove"} => shape = "OpResult"
                /\ KindOf(i) = "SafeToRemove" => shape = "OpBoolResult"
                /\ KindOf(i) = "List" => shape = "Disks"
                /\ KindOf(i) # "AddPartition"

C10_Witness ==
    /\ Len(reqs) = 2
    /\ KindOf(1) = "List" /\ Len(reqs[1].sends) = 1
    /\ reqs[1].sends[1].msg.shape = "Disks" /\ reqs[1].sends[1].ok
    /\ KindOf(2) = "SafeToRemove" /\ Len(reqs[2].sends) = 1
    /\ reqs[2].sends[1].msg.shape = "OpBoolResult" /\ reqs[2].sends[1].ok

\* C11: an AddPartition request with a valid token causes no backend call,
\* no enumeration and no response; nothing fails in its handling: the arm
\* ends, the sleep follows and the listener reaches its next receive.
C11_AddPartitionNoOp ==
    \A i \in Ids :
        (reqs[i].auth = "ok" /\ KindOf(i) = "AddPartition")
           => /\ reqs[i].calls = <<>> /\ reqs[i].loaded = "none"
              /\ reqs[i].enumerated = "none"
              /\ reqs[i].sends = <<>>
              /\ reqs[i].dropped \in {"none", "noop"}
              /\ \A a \in active : a.req # i
              /\ i = cur
                    => /\ pc \in {"dispatch", "sleep", "recv", "exited"}
                       /\ (pc = "dispatch") <=> (reqs[i].dropped = "none")
                       /\ (pc = "recv") => reqs[i].finished
                       /\ faults \subseteq {"recv", "recv_efsm"}

C11_Witness ==
    \E i \in Ids :
        /\ reqs[i].auth = "ok" /\ KindOf(i) = "AddPartition"
        /\ reqs[i].msg.op.has_disk
        /\ reqs[i].dropped = "noop" /\ reqs[i].finished /\ pc = "recv"

\* The disk list built for request i: the one handed to send_msg, or the one
\* the handler holds while it is about to send.
DiskListOf(i) ==
    IF reqs[i].sends # <<>> THEN reqs[i].sends[1].msg.disk ELSE result.disk

C13_PartitionsAsOnDisk ==
    \A i \in Ids :
        reqs[i].enumerated = "ok"
           => LET devs == reqs[i].host.devices
                  d    == DiskListOf(i)
              IN \A k \in 1..Len(devs) :
                    (devs[k].table.header_ok /\ devs[k].table.entries_ok)
                       => LET ents  == devs[k].table.partitions
                              parts == d[k].partitions
                          IN /\ Len(parts) = Len(ents)
                             /\ \A n \in 1..Len(ents) :
                                   /\ parts[n].uuid = ents[n].part_guid[1] \o "-"
                                                         \o ents[n].part_guid[2]
                                   /\ parts[n].first_lba = ents[n].first_LBA
                                   /\ parts[n].last_lba = ents[n].last_LBA
                                   /\ parts[n].flags = ents[n].flags
                                   /\ parts[n].name = ents[n].name
                                   /\ (ents[n].first_LBA <= ents[n].last_LBA)
                                         => parts[n].first_lba <= parts[n].last_lba

C13_Witness ==
    \E i \in Ids :
        /\ reqs[i].enumerated = "ok" /\ Len(reqs[i].sends) = 1
        /\ reqs[i].host.devices = <<DevSdb, DevSda>>
        /\ LET parts == reqs[i].sends[1].msg.disk[2].partitions
           IN /\ Len(parts) = 2
              /\ parts[1].uuid = "0a-01" /\ parts[1].first_lba = 34
              /\ parts[1].last_lba = 2047 /\ parts[1].name = "boot"
              /\ parts[2].uuid = "0b-02" /\ parts[2].flags = 4

\* C14: safe_to_remove(path, simulate = true) returns Ok(true) for every
\* device path and every state of the cluster, and leaves the cluster as it
\* was.
C14_SimulatedSafeToRemove ==
    (last_call.op = "safe_to_remove" /\ last_call.simulate)
       => /\ last_call.result.ok
          /\ last_call.result.value = TRUE
          /\ topology = last_call.before

C14_Witness ==
    /\ last_call.op = "safe_to_remove" /\ last_call.simulate
    /\ backend_type = "gluster"
    /\ last_call.device = "/dev/sda" /\ topology = {"/dev/sda", "/dev/sdz"}
    /\ last_call.result.value = TRUE

\* C15: add_disk and remove_disk called with simulate = true leave the cluster
\* as it was and return Ok.
C15_SimulatedAddRemove ==
    (last_call.op \in {"add_disk", "remove_disk"} /\ last_call.simulate)
       => /\ last_call.result.ok
          /\ topology = last_call.before

C15_Witness ==
    /\ last_call.op = "remove_disk" /\ last_call.simulate
    /\ backend_type = "gluster"
    /\ last_call.device = "/dev/sdz" /\ "/dev/sdz" \in topology
    /\ last_call.result.ok

\* C16: in every OpResult and OpBoolResult handed to the socket the error
\* message is present exactly when the status is ERR; in every OpBoolResult
\* the value is set exactly when the status is OK, and is then the boolean
\* the backend's safe_to_remove returned.
C16_ResultFields ==
    \A i \in Ids :
        \A k \in 1..Len(reqs[i].sends) :
            LET m == reqs[i].sends[k].msg IN
              /\ m.shape \in {"OpResult", "OpBoolResult"}
                    => (m.has_error_msg <=> m.result = "ERR")
              /\ m.shape = "OpBoolResult"
                    => /\ m.has_value <=> m.result = "OK"
                       /\ m.has_value
                             => /\ Len(reqs[i].calls) = 1
                                /\ reqs[i].calls[1].op = "safe_to_remove"
                                /\ Len(reqs[i].returns) = 1
                                /\ reqs[i].returns[1].ok
                                /\ m.value = reqs[i].returns[1].value

C16_Witness ==
    /\ Len(reqs) = 2
    /\ KindOf(1) = "SafeToRemove" /\ Len(reqs[1].sends) = 1
    /\ reqs[1].returns = <<IoOkBool(FALSE)>>
    /\ reqs[1].sends[1].msg.result = "OK"
    /\ reqs[1].sends[1].msg.has_value /\ reqs[1].sends[1].msg.value = FALSE
    /\ KindOf(2) = "SafeToRemove" /\ Len(reqs[2].sends) = 1
    /\ reqs[2].returns = <<IoErr("device busy")>>
    /\ reqs[2].sends[1].msg.result = "ERR"
    /\ reqs[2].sends[1].msg.has_error_msg /\ ~reqs[2].sends[1].msg.has_value

\* C17: when load_backend fails in the handler of an Add, Remove or
\* SafeToRemove request with a valid token and a disk path, no backend
\* operation is invoked and no response is sent for that request; nothing but
\* the log records the error: the arm ends, the sleep follows and the
\* listener reaches its next receive.
C17_LoadFailureSilent ==
    \A i \in Ids :
        reqs[i].loaded = "err"
           => /\ reqs[i].auth = "ok" /\ reqs[i].msg.op.has_disk
              /\ KindOf(i) \in {"Add", "Remove", "SafeToRemove"}
              /\ reqs[i].calls = <<>> /\ reqs[i].returns = <<>>
              /\ reqs[i].enumerated = "none"
              /\ reqs[i].sends = <<>>
              /\ reqs[i].dropped = "load"
              /\ \A a \in active : a.req # i
              /\ i = cur
                    => /\ pc \in {"sleep", "recv", "exited"}
                       /\ (pc = "recv") => reqs[i].finished
                       /\ faults \subseteq {"recv", "recv_efsm"}

C17_Witness ==
    /\ Len(reqs) = 2
    /\ Len(reqs[1].sends) = 1 /\ reqs[1].sends[1].ok
    /\ KindOf(2) = "SafeToRemove" /\ reqs[2].auth = "ok"
    /\ reqs[2].loaded = "err" /\ reqs[2].finished /\ pc = "recv"
    /\ topology = {}

\* The number of operations of one kind among the first n on the socket.
CountOf(what, n) == Cardinality({k \in 1..n : wire[k] = what})

\* C18: on the listener's socket every send comes directly after a receive:
\* at every point the sends made do not outnumber the receives, and no two
\* sends follow each other without a receive between them.
C18_SendFollowsReceive ==
    /\ \A n \in 0..Len(wire) : CountOf("send", n) <= CountOf("recv", n)
    /\ \A k \in 1..Len(wire) :
          wire[k] = "send" => (k > 1 /\ wire[k - 1] = "recv")

C18_Witness ==
    /\ wire = <<"recv", "send", "recv", "send">>
    /\ Len(reqs) = 2
    /\ reqs[1].sends[1].ok /\ ~reqs[2].sends[1].ok

\* C19: every backend call the handlers make passes simulate = false, whatever
\* the request holds and whatever requests came before.
C19_NeverSimulate ==
    \A i \in Ids :
        \A k \in 1..Len(reqs[i].calls) :
            /\ reqs[i].calls[k].simulate = FALSE
            /\ reqs[i].calls[k].op = BackendOp(KindOf(i))

C19_Witness ==
    /\ Len(reqs) = 2
    /\ KindOf(1) = "Add" /\ Len(reqs[1].calls) = 1
    /\ reqs[1].calls[1].op = "add_disk" /\ ~reqs[1].calls[1].simulate
    /\ reqs[1].returns = <<IoOk>> /\ topology = {"/dev/sdz"}
    /\ KindOf(2) = "SafeToRemove" /\ Len(reqs[2].calls) = 1
    /\ reqs[2].calls[1].op = "safe_to_remove" /\ ~reqs[2].calls[1].simulate
    /\ reqs[2].returns = <<IoOkBool(FALSE)>>

====
